---------------------------- MODULE Spec2Model ----------------------------
(***************************************************************************)
(* A model of hub's pull-request command (src/pull_request.go): the draft  *)
(* composer, the editor invoker, the title/body parser and the pipeline    *)
(* pullRequest that chains them.                                           *)
(*                                                                         *)
(* A Go string is a sequence of characters; a character is a one-character *)
(* TLA+ string.  The vertical tab U+000B has no TLA+ escape and is written *)
(* as its Go escape, the token "\\v".                                      *)
(***************************************************************************)
EXTENDS Naturals, Integers, Sequences, FiniteSets, TLC

VARIABLES
    pc,          \* position of pullRequest: start, edit, editing, read, check, submit, done, fatal
                 \* (and writing, reading where a step is taken one system call at a time)
    base,        \* flagPullRequestBase
    head,        \* flagPullRequestHead
    commitLog,   \* the text git.CommitLogs returns in this run
    gitEditor,   \* the string git.Editor() returns
    gitDir,      \* the string git.Dir() returns
    stale,       \* what the scratch file held when the run began: <<content>>, or <<>> if absent
    otherRun,    \* where another run of the command is with its write of the scratch
                 \* file: "idle", "truncated" (opened with O_TRUNC), "written"
    otherInWindow, \* whether the other run opened or wrote the scratch file after
                 \* this run's composer opened it and before this run's read-back ended
    readBuf,     \* what the reads of a read-back taken one system call at a time
                 \* have returned so far: the bytes, in parts; a part ends where a
                 \* read returned nothing or failed while a line was unfinished
    fileExists,  \* whether the scratch file exists
    file,        \* content of the scratch file (<<>> while it does not exist)
    lastWrite,   \* content last left by the composer or the editor
    edited,      \* whether the editor has written the scratch file
    logArgs,     \* the arguments handed to git.CommitLogs
    editCmd,     \* the argv handed to exec.Command
    title,       \* title returned by readTitleAndBodyFromFile
    body,        \* body returned by readTitleAndBodyFromFile
    readErr,     \* what ended the parser's read loop: "EOF", "EIO", "comment"; "none" before it ran
    linesRead,   \* the number of lines the parser's loop appended
    err,         \* the error value pullRequest holds
    failedAt,    \* the step log.Fatal was called at, "none" otherwise
    exitStatus,  \* -1 while running, 0 after return, 1 after log.Fatal
    submitted    \* the PullRequestParams gh.CreatePullRequest was called with

vars == <<pc, base, head, commitLog, gitEditor, gitDir, stale, otherRun, otherInWindow, readBuf,
          fileExists, file, lastWrite,
          edited, logArgs, editCmd, title, body, readErr, linesRead, err, failedAt,
          exitStatus, submitted>>

-----------------------------------------------------------------------------
(* Characters and the Go library functions the code calls.                 *)

VT == "\\v"

\* The class \s of Go's regexp package (ASCII only); \S is its complement.
RegexpSpace == {"\t", "\n", "\f", "\r", " "}

\* The characters unicode.IsSpace accepts, as far as the model's alphabet goes
\* (U+0085 and U+00A0 are further ones).  strings.TrimSpace trims these.
UnicodeSpace == {"\t", "\n", VT, "\f", "\r", " "}

\* All strings over alphabet A of length at most n.
StrUpTo(A, n) == UNION {[1..k -> A] : k \in 0..n}

Min(S) == CHOOSE x \in S : \A y \in S : x <= y

Max(S) == CHOOSE x \in S : \A y \in S : x >= y

\* strings.HasPrefix
HasPrefix(s, prefix) ==
    /\ Len(s) >= Len(prefix)
    /\ SubSeq(s, 1, Len(prefix)) = prefix

\* strings.TrimSpace
TrimSpace(s) ==
    LET n     == Len(s)
        first == CHOOSE i \in 1..n :
                     s[i] \notin UnicodeSpace /\ \A j \in 1..(i - 1) : s[j] \in UnicodeSpace
        last  == CHOOSE i \in 1..n :
                     s[i] \notin UnicodeSpace /\ \A j \in (i + 1)..n : s[j] \in UnicodeSpace
    IN  IF \A i \in 1..n : s[i] \in UnicodeSpace THEN <<>> ELSE SubSeq(s, first, last)

\* strings.Join
RECURSIVE Join(_, _)
Join(parts, sep) ==
    IF Len(parts) = 0 THEN <<>>
    ELSE IF Len(parts) = 1 THEN parts[1]
    ELSE parts[1] \o sep \o Join(Tail(parts), sep)

\* strings.Split(s, sep) for a one-character separator
RECURSIVE Split(_, _)
Split(s, sep) ==
    LET at == {i \in 1..Len(s) : s[i] = sep}
    IN  IF at = {} THEN <<s>>
        ELSE <<SubSeq(s, 1, Min(at) - 1)>> \o Split(SubSeq(s, Min(at) + 1, Len(s)), sep)

-----------------------------------------------------------------------------
(* The title/body parser.                                                  *)

\* The size of the buffer bufio.NewReader gives its Reader (bufio's default).
BufSize == 4096

\* A bufio.Reader over the scratch file: buf is what the file still delivers,
\* fail the error the underlying read returns once buf is used up ("EOF" at
\* the end of the file, "EIO" for a failing read).
\* later holds what reads deliver after a read that returned nothing or failed
\* while bytes of an unfinished line were buffered: the Reader drops that
\* error (see ReadLine) and its next fill reads the file again.
NewReader(data, fail) == [buf |-> data, fail |-> fail, later |-> <<>>]

\* A Reader over the parts delivered between such reads; fail follows the last.
NewReaderParts(parts, fail) ==
    [buf   |-> parts[1],
     fail  |-> fail,
     later |-> [i \in 1..(Len(parts) - 1) |-> [buf |-> parts[i + 1], fail |-> fail]]]

\* bufio.Reader.ReadLine. ReadSlice looks for "\n" in at most BufSize bytes.
\* With a "\n" there, the line up to it is returned without the "\n" and
\* without a "\r" right before it. With BufSize bytes and no "\n", they are
\* returned with isPrefix set, a "\r" at their end being left for the next
\* call. Fewer bytes without "\n", the read after them returning nothing or
\* failing, are returned as a line and the error is dropped: the next call
\* reads the file again. With no byte left the error is returned.
ReadLine(r) ==
    LET n    == Len(r.buf)
        at   == {i \in 1..Min({n, BufSize}) : r.buf[i] = "\n"}
        nl   == IF at = {} THEN 0 ELSE Min(at)
        raw  == SubSeq(r.buf, 1, nl - 1)
    IN  IF nl > 0
        THEN [line     |-> IF Len(raw) > 0 /\ raw[Len(raw)] = "\r"
                           THEN SubSeq(raw, 1, Len(raw) - 1) ELSE raw,
              isPrefix |-> FALSE,
              err      |-> "nil",
              reader   |-> [r EXCEPT !.buf = SubSeq(r.buf, nl + 1, n)]]
        ELSE IF n >= BufSize
        THEN LET keep == IF r.buf[BufSize] = "\r" THEN BufSize - 1 ELSE BufSize
             IN  [line     |-> SubSeq(r.buf, 1, keep),
                  isPrefix |-> TRUE,
                  err      |-> "nil",
                  reader   |-> [r EXCEPT !.buf = SubSeq(r.buf, keep + 1, n)]]
        ELSE IF n = 0
        THEN [line |-> <<>>, isPrefix |-> FALSE, err |-> r.fail, reader |-> r]
        ELSE [line     |-> r.buf,
              isPrefix |-> FALSE,
              err      |-> "nil",
              reader   |-> IF r.later = <<>>
                           THEN [r EXCEPT !.buf = <<>>]
                           ELSE [buf   |-> Head(r.later).buf,
                                 fail  |-> Head(r.later).fail,
                                 later |-> Tail(r.later)]]

\* The loop of readln: pieces are appended while isPrefix is set and no error
\* came; ln is what has been appended so far.
RECURSIVE readlnLoop(_, _)
readlnLoop(r, ln) ==
    LET got == ReadLine(r)
    IN  IF got.isPrefix /\ got.err = "nil"
        THEN readlnLoop(got.reader, ln \o got.line)
        ELSE [line |-> ln \o got.line, err |-> got.err, reader |-> got.reader]

\* readln: the appended pieces and the error of the last ReadLine. After
\* pieces with isPrefix set, a ReadLine that finds no byte left returns the
\* error, and readln returns the pieces read so far together with it.
readln(r) == readlnLoop(r, <<>>)

IsCommentAnywhere(line) == \E i \in 1..Len(line) : line[i] = "#"

\* strings.HasPrefix(line, "#")
IsComment(line) == HasPrefix(line, <<"#">>)

\* regexp.MustCompile("\\S").MatchString(line)
MatchNonSpace(line) == \E i \in 1..Len(line) : line[i] \notin RegexpSpace

IsTitleLineNoBodyCheck(bodyParts, line) == MatchNonSpace(line)

\* len(bodyParts) == 0 && r.MatchString(line)
IsTitleLine(bodyParts, line) == Len(bodyParts) = 0 /\ MatchNonSpace(line)

\* The loop of readTitleAndBody; got is the result of the latest readln and n
\* the number of lines appended so far.
RECURSIVE ReadLoop(_, _, _, _)
ReadLoop(got, titleParts, bodyParts, n) ==
    IF got.err # "nil"
    THEN [titleParts |-> titleParts, bodyParts |-> bodyParts, linesRead |-> n,
          stop |-> got.err]
    ELSE IF IsComment(got.line)
    THEN [titleParts |-> titleParts, bodyParts |-> bodyParts, linesRead |-> n,
          stop |-> "comment"]
    ELSE IF IsTitleLine(bodyParts, got.line)
    THEN ReadLoop(readln(got.reader), Append(titleParts, got.line), bodyParts, n + 1)
    ELSE ReadLoop(readln(got.reader), titleParts, Append(bodyParts, got.line), n + 1)

readTitleAndBodyTitleLines(reader) ==
    LET p == ReadLoop(readln(reader), <<>>, <<>>, 0)
    IN  [title      |-> TrimSpace(Join(p.titleParts, <<"\n">>)),
         body       |-> TrimSpace(Join(p.bodyParts, <<"\n">>)),
         err        |-> "nil",
         titleParts |-> p.titleParts,
         bodyParts  |-> p.bodyParts,
         linesRead  |-> p.linesRead,
         stop       |-> p.stop]

\* readTitleAndBody: the returned title, body and err, and what the loop did.
readTitleAndBody(reader) ==
    LET p == ReadLoop(readln(reader), <<>>, <<>>, 0)
    IN  [title      |-> TrimSpace(Join(p.titleParts, <<" ">>)),
         body       |-> TrimSpace(Join(p.bodyParts, <<"\n">>)),
         err        |-> "nil",
         titleParts |-> p.titleParts,
         bodyParts  |-> p.bodyParts,
         linesRead  |-> p.linesRead,
         stop       |-> p.stop]

-----------------------------------------------------------------------------
(* The reference resolver and the draft composer.                          *)

getLocalBranchFirst(branchName) ==
    LET result == Split(branchName, ":")
    IN  result[1]

\* getLocalBranch: the last piece of strings.Split(branchName, ":")
getLocalBranch(branchName) ==
    LET result == Split(branchName, ":")
    IN  result[Len(result)]

RECURSIVE PrefixLines(_)
PrefixLines(s) ==
    IF s = <<>> THEN <<>>
    ELSE (IF Head(s) = "\n" THEN <<"\n", "#", " ">> ELSE <<Head(s)>>) \o PrefixLines(Tail(s))

\* ^ matching at the start of the text only.
startRegexpReplaceTextStart(s) == <<"#", " ">> \o s

\* regexp.MustCompilePOSIX("^").ReplaceAllString(s, "# "): POSIX syntax has no
\* OneLine flag, so ^ matches at the start of the text and after every "\n".
startRegexpReplace(s) == <<"#", " ">> \o PrefixLines(s)

\* Whether position i of s lies in a run of spaces that reaches the end of its
\* line: a match of the POSIX expression " +$", whose $ matches before "\n"
\* and at the end of the text.
InTrailingSpaces(s, i) ==
    LET lineEnd == Min({j \in i..Len(s) : s[j] = "\n"} \cup {Len(s) + 1})
    IN  s[i] = " " /\ \A j \in i..(lineEnd - 1) : s[j] = " "

RECURSIVE DropTrailingSpaces(_, _)
DropTrailingSpaces(s, i) ==
    IF i > Len(s) THEN <<>>
    ELSE (IF InTrailingSpaces(s, i) THEN <<>> ELSE <<s[i]>>) \o DropTrailingSpaces(s, i + 1)

endRegexpReplaceNothing(s) == s

\* regexp.MustCompilePOSIX(" +$").ReplaceAllString(s, "")
endRegexpReplace(s) == DropTrailingSpaces(s, 1)

\* The template of writePullRequestChanges, cut at its three %s verbs.
messageHead ==
    <<"\n","#"," ","R","e","q","u","e","s","t","i","n","g"," ","a"," ","p","u","l","l",
      " ","t","o"," ">>

messageFrom ==
    <<" ","f","r","o","m"," ">>

messageInstructions ==
    <<"\n","#","\n","#"," ","W","r","i","t","e"," ","a"," ","m","e","s","s","a","g","e",
      " ","f","o","r"," ","t","h","i","s"," ","p","u","l","l"," ","r","e","u","q","e",
      "s","t","."," ","T","h","e"," ","f","i","r","s","t"," ","b","l","o","c","k","\n",
      "#"," ","o","f"," ","t","h","e"," ","t","e","x","t"," ","i","s"," ","t","h","e",
      " ","t","i","t","l","e"," ","a","n","d"," ","t","h","e"," ","r","e","s","t"," ",
      "i","s"," ","d","e","s","c","r","i","p","t","i","o","n",".","\n","#","\n","#"," ",
      "C","h","a","n","g","e","s",":","\n","#","\n">>

messageTail ==
    <<"\n">>

\* fmt.Sprintf(message, base, head, commitLogs)
Sprintf(b, h, commitLogs) ==
    messageHead \o b \o messageFrom \o h \o messageInstructions \o commitLogs \o messageTail

\* Lines 88-90: the commit log as it goes into the draft.
processCommitLogs(log) == endRegexpReplace(startRegexpReplace(TrimSpace(log)))

\* The message writePullRequestChanges writes for base b, head h and the log
\* text git.CommitLogs returned.
composeMessage(b, h, log) == Sprintf(b, h, processCommitLogs(log))

-----------------------------------------------------------------------------
(* The editor invoker.                                                     *)

EditMsgName ==
    <<"P","U","L","L","R","E","Q","_","E","D","I","T","M","S","G">>

FtFlag ==
    <<"s","e","t"," ","f","t","=","g","i","t","c","o","m","m","i","t">>

\* The elements of a path that filepath.Clean keeps, from element i on: empty
\* elements and "." go; ".." takes the element before it away, goes itself
\* when the path is rooted and nothing is before it, and stays otherwise.
RECURSIVE CleanElements(_, _, _, _)
CleanElements(elems, i, kept, rooted) ==
    IF i > Len(elems) THEN kept
    ELSE IF elems[i] = <<>> \/ elems[i] = <<".">>
    THEN CleanElements(elems, i + 1, kept, rooted)
    ELSE IF elems[i] = <<".", ".">>
    THEN IF Len(kept) > 0 /\ kept[Len(kept)] # <<".", ".">>
         THEN CleanElements(elems, i + 1, SubSeq(kept, 1, Len(kept) - 1), rooted)
         ELSE IF rooted
         THEN CleanElements(elems, i + 1, kept, rooted)
         ELSE CleanElements(elems, i + 1, Append(kept, elems[i]), rooted)
    ELSE CleanElements(elems, i + 1, Append(kept, elems[i]), rooted)

\* filepath.Clean on a system whose separator is "/"
Clean(path) ==
    LET rooted == Len(path) > 0 /\ path[1] = "/"
        kept   == Join(CleanElements(Split(path, "/"), 1, <<>>, rooted), <<"/">>)
    IN  IF rooted THEN <<"/">> \o kept
        ELSE IF kept = <<>> THEN <<".">>
        ELSE kept

\* filepath.Join(a, b): the non-empty ones of a and b joined by "/", cleaned.
FilepathJoin(a, b) ==
    IF a = <<>> /\ b = <<>> THEN <<>>
    ELSE IF a = <<>> THEN Clean(b)
    ELSE IF b = <<>> THEN Clean(a)
    ELSE Clean(a \o <<"/">> \o b)

\* filepath.Join(git.Dir(), "PULLREQ_EDITMSG")
messageFile(dir) == FilepathJoin(dir, EditMsgName)

vimRegexpMatchSuffix(gitEd) ==
    Len(gitEd) >= 3 /\ SubSeq(gitEd, Len(gitEd) - 2, Len(gitEd)) = <<"v", "i", "m">>

\* regexp.MustCompile("^[mg]?vim$").MatchString(gitEditor): Perl syntax, so ^
\* and $ match only at the two ends of the text.
vimRegexpMatch(gitEd) ==
    \/ gitEd = <<"v", "i", "m">>
    \/ /\ Len(gitEd) = 4
       /\ gitEd[1] \in {"m", "g"}
       /\ Tail(gitEd) = <<"v", "i", "m">>

\* buildEditCommand, with the result of git.Editor() as a parameter
buildEditCommand(msgFile, gitEd) ==
    LET editCmd0 == <<gitEd>>
        editCmd1 == IF vimRegexpMatch(gitEd)
                    THEN editCmd0 \o <<<<"-", "c">>, FtFlag>>
                    ELSE editCmd0
    IN  Append(editCmd1, msgFile)

-----------------------------------------------------------------------------
(* The pipeline pullRequest.                                               *)

\* log.Fatal(e) at the given step: the diagnostic is printed and the process
\* exits with status 1.
Fatal(step, e) ==
    /\ pc' = "fatal"
    /\ err' = e
    /\ failedAt' = step
    /\ exitStatus' = 1

\* Bounds of the inputs.
MaxShortWrite == 1
MaxErrOffset == 5
MaxTypedLen == 2
MaxTextLen == 5
MaxLogLen == 5
MaxRefLen == 3
MaxEditorLen == 4

WriteFileAppend(old, data) == old \o data

\* ioutil.WriteFile(messageFile, message, 0644) succeeding: the file is created
\* or truncated, then data is written; nothing of the old content stays.
WriteFile(old, data) == data

\* ioutil.WriteFile(messageFile, message, 0644) failing: the file could not be
\* opened (nothing changes), or it was created or truncated and only a part of
\* the message was written.
WriteFileFails(message) ==
    \/ UNCHANGED <<fileExists, file, lastWrite>>
    \/ \E n \in 0..MaxShortWrite :
          /\ n <= Len(message)
          /\ fileExists' = TRUE
          /\ file' = SubSeq(message, 1, n)
          /\ lastWrite' = file'

\* writePullRequestChanges and the check of its error (lines 47-50, 73-95).
WritePullRequestChanges ==
    /\ pc = "start"
    /\ logArgs' = <<getLocalBranch(base), getLocalBranch(head)>>
    /\ LET message == composeMessage(base, head, commitLog)
       IN  \/ /\ fileExists' = TRUE
              /\ file' = WriteFile(file, message)
              /\ lastWrite' = file'
              /\ pc' = "edit"
              /\ UNCHANGED <<err, failedAt, exitStatus>>
           \/ /\ WriteFileFails(message)
              /\ Fatal("write", "IOError")
    /\ UNCHANGED <<base, head, commitLog, gitEditor, gitDir, stale, otherRun, otherInWindow, readBuf,
                   edited, editCmd, title,
                   body, readErr, linesRead, submitted>>

\* cmd.Start in place of cmd.Run: the pipeline goes on to the read-back while
\* the editor is still running.
ExecCmdStartNoWait ==
    /\ pc = "edit"
    /\ editCmd' = buildEditCommand(messageFile(gitDir), gitEditor)
    /\ \/ /\ pc' = "read"
          /\ UNCHANGED <<err, failedAt, exitStatus>>
       \/ Fatal("exec", "ExecError")
    /\ UNCHANGED <<base, head, commitLog, gitEditor, gitDir, stale, otherRun, otherInWindow, readBuf,
                   fileExists, file, lastWrite,
                   edited, logArgs, title, body, readErr, linesRead, submitted>>

\* buildEditCommand and the start of execCmd (lines 52-53, 116-122): the editor
\* is launched, or cmd.Run fails at once and the error is fatal (54-56).
ExecCmdStart ==
    /\ pc = "edit"
    /\ editCmd' = buildEditCommand(messageFile(gitDir), gitEditor)
    /\ \/ /\ pc' = "editing"
          /\ UNCHANGED <<err, failedAt, exitStatus>>
       \/ Fatal("exec", "ExecError")
    /\ UNCHANGED <<base, head, commitLog, gitEditor, gitDir, stale, otherRun, otherInWindow, readBuf,
                   fileExists, file, lastWrite,
                   edited, logArgs, title, body, readErr, linesRead, submitted>>

\* What the user can type in the editor.
TypedTexts == StrUpTo({"a", " ", "#", "\n"}, MaxTypedLen)

\* The running editor saves the scratch file: the typed text alone, or the
\* typed text put in front of what the file holds.
EditorWrites ==
    /\ pc = "editing"
    /\ ~edited
    /\ \E t \in TypedTexts :
          \/ file' = t
          \/ file' = t \o file
    /\ lastWrite' = file'
    /\ edited' = TRUE
    /\ UNCHANGED <<pc, base, head, commitLog, gitEditor, gitDir, stale, otherRun, otherInWindow, readBuf,
                   fileExists, logArgs,
                   editCmd, title, body, readErr, linesRead, err, failedAt, exitStatus,
                   submitted>>

\* cmd.Run returns when the editor exits (line 122): nil for status 0, an
\* error otherwise, which is fatal (54-56).
EditorExit ==
    /\ pc = "editing"
    /\ \/ /\ pc' = "read"
          /\ UNCHANGED <<err, failedAt, exitStatus>>
       \/ Fatal("exec", "ExecError")
    /\ UNCHANGED <<base, head, commitLog, gitEditor, gitDir, stale, otherRun, otherInWindow, readBuf,
                   fileExists, file, lastWrite,
                   edited, logArgs, editCmd, title, body, readErr, linesRead, submitted>>

osOpenTruncating(content) == <<>>

\* os.Open(messageFile) opens the file for reading: its content stays.
osOpen(content) == content

\* The places a failing read can cut the file at.
ErrOffsets(content) == {k \in 0..Len(content) : k <= MaxErrOffset \/ k = Len(content)}

\* readTitleAndBodyFromFile and the check of its error (lines 58-61, 126-135):
\* os.Open fails, or the file is parsed through a reader that delivers all of
\* it and then io.EOF, or only the first k bytes and then a read error.
ReadTitleAndBodyFromFile ==
    /\ pc = "read"
    /\ \/ /\ Fatal("read", "IOError")
          /\ UNCHANGED <<file, title, body, readErr, linesRead>>
       \/ /\ fileExists
          /\ file' = osOpen(file)
          /\ \E reader \in {NewReader(file, "EOF")}
                       \cup {NewReader(SubSeq(file, 1, k), "EIO") : k \in ErrOffsets(file)} :
                LET got == readTitleAndBody(reader)
                IN  /\ title' = got.title
                    /\ body' = got.body
                    /\ readErr' = got.stop
                    /\ linesRead' = got.linesRead
                    /\ IF got.err # "nil"
                       THEN Fatal("read", "IOError")
                       ELSE /\ pc' = "check"
                            /\ err' = "nil"
                            /\ UNCHANGED <<failedAt, exitStatus>>
    /\ UNCHANGED <<base, head, commitLog, gitEditor, gitDir, stale, otherRun, otherInWindow, readBuf,
                   fileExists, lastWrite,
                   edited, logArgs, editCmd, submitted>>

TitleIsEmptyNever(t) == FALSE

\* len(title) == 0
TitleIsEmpty(t) == Len(t) = 0

\* An empty title sends the run back to the editor instead of ending it.
CheckTitleRetries ==
    /\ pc = "check"
    /\ IF TitleIsEmpty(title)
       THEN /\ pc' = "edit"
            /\ UNCHANGED <<err, failedAt, exitStatus>>
       ELSE /\ pc' = "submit"
            /\ UNCHANGED <<err, failedAt, exitStatus>>
    /\ UNCHANGED <<base, head, commitLog, gitEditor, gitDir, stale, otherRun, otherInWindow, readBuf,
                   fileExists, file, lastWrite,
                   edited, logArgs, editCmd, title, body, readErr, linesRead, submitted>>

\* Lines 62-64.
CheckTitle ==
    /\ pc = "check"
    /\ IF TitleIsEmpty(title)
       THEN Fatal("title", "ValidationError")
       ELSE /\ pc' = "submit"
            /\ UNCHANGED <<err, failedAt, exitStatus>>
    /\ UNCHANGED <<base, head, commitLog, gitEditor, gitDir, stale, otherRun, otherInWindow, readBuf,
                   fileExists, file, lastWrite,
                   edited, logArgs, editCmd, title, body, readErr, linesRead, submitted>>

PullRequestParamsLocal(t, b, bs, hd) ==
    [title |-> t, body |-> b, base |-> getLocalBranch(bs), head |-> getLocalBranch(hd)]

\* PullRequestParams{title, body, flagPullRequestBase, flagPullRequestHead}
PullRequestParams(t, b, bs, hd) == [title |-> t, body |-> b, base |-> bs, head |-> hd]

\* Lines 66-70: gh.CreatePullRequest is called; its error is fatal, otherwise
\* pullRequest returns.
CreatePullRequest ==
    /\ pc = "submit"
    /\ submitted' = Append(submitted, PullRequestParams(title, body, base, head))
    /\ \/ /\ pc' = "done"
          /\ exitStatus' = 0
          /\ UNCHANGED <<err, failedAt>>
       \/ Fatal("submit", "ServiceError")
    /\ UNCHANGED <<base, head, commitLog, gitEditor, gitDir, stale, otherRun, otherInWindow, readBuf,
                   fileExists, file, lastWrite,
                   edited, logArgs, editCmd, title, body, readErr, linesRead>>

-----------------------------------------------------------------------------
(* Specifications.                                                         *)

\* The values every run starts with.
Fresh ==
    /\ edited = FALSE
    /\ logArgs = <<>>
    /\ editCmd = <<>>
    /\ title = <<>>
    /\ body = <<>>
    /\ readErr = "none"
    /\ linesRead = 0
    /\ err = "nil"
    /\ failedAt = "none"
    /\ exitStatus = -1
    /\ submitted = <<>>
    /\ otherRun = "idle"
    /\ otherInWindow = FALSE
    /\ readBuf = <<>>

FlagRefs == {<<"m">>, <<"o", ":", "m">>, <<"o", ":", "b">>}

PipelineLogs == {<<>>, <<"a">>, <<"a", "\n", "\n", "b">>}

PipelineEditors == {<<"v", "i", "m">>, <<"n", "a", "n", "o">>}

GitDirs ==
    { <<".", "g", "i", "t">>,
      <<"/", "r", "/", ".", "g", "i", "t">>,
      <<".">>,
      <<"/">>,
      <<".", "g", "i", "t", "/">>,
      <<"r", "/", ".", ".", "/", ".", "g", "i", "t">> }

StaleText == <<"o", "l", "d">>

\* A run of pullRequest from its first line; the scratch file is absent or
\* left over from an earlier run.
Init ==
    /\ pc = "start"
    /\ base \in FlagRefs
    /\ head \in FlagRefs
    /\ commitLog \in PipelineLogs
    /\ gitEditor \in PipelineEditors
    /\ gitDir = <<".", "g", "i", "t">>
    /\ \/ fileExists = FALSE /\ file = <<>>
       \/ fileExists = TRUE /\ file = StaleText
    /\ stale = IF fileExists THEN <<file>> ELSE <<>>
    /\ lastWrite = file
    /\ Fresh

Next ==
    \/ WritePullRequestChanges
    \/ ExecCmdStart
    \/ EditorWrites
    \/ EditorExit
    \/ ReadTitleAndBodyFromFile
    \/ CheckTitle
    \/ CreatePullRequest

Spec == Init /\ [][Next]_vars

-----------------------------------------------------------------------------
(* The parser on its own: a run taken up where the editor has exited and   *)
(* left an arbitrary text in the scratch file.                             *)

Ex1 ==
    <<"L","i","n","e"," ","o","n","e","\n","L","i","n","e"," ","t","w","o","\n","\n",
      "B","o","d","y"," ","l","i","n","e">>

Ex1Title ==
    <<"L","i","n","e"," ","o","n","e"," ","L","i","n","e"," ","t","w","o">>

Ex1Body ==
    <<"B","o","d","y"," ","l","i","n","e">>

Ex2 ==
    <<"F","i","x"," ","b","u","g","\n","\n","D","e","t","a","i","l","s"," ","h","e","r",
      "e","\n","m","o","r","e"," ","d","e","t","a","i","l","s","\n","#"," ","i","g","n",
      "o","r","e","d">>

Ex2Title ==
    <<"F","i","x"," ","b","u","g">>

Ex2Body ==
    <<"D","e","t","a","i","l","s"," ","h","e","r","e","\n","m","o","r","e"," ","d","e",
      "t","a","i","l","s">>

\* A body line that ends in a carriage return of its own.
ExCr == <<"\n", "a", "\r", "\r", "\n", "a">>

\* An indented "#" after the title block.
ExIndented == <<"a", "\n", "\n", " ", "#", "a", "\n", "a">>

ParseAlphabet == {"a", " ", "#", "\n", "\r", VT}

\* A line that fills the reader's buffer exactly.
LongLine == [i \in 1..BufSize |-> "a"]

\* Texts with a line as long as the reader's buffer or longer: as the last
\* line without a line feed, also behind a title line and behind a blank
\* line; ended by a line feed; one character longer; with a carriage return
\* as its last character; twice as long.
LongTexts ==
    { LongLine,
      <<"a", "\n">> \o LongLine,
      <<"\n">> \o LongLine,
      LongLine \o <<"\n">>,
      <<"a", "\n", "\n">> \o LongLine \o <<"\n">>,
      LongLine \o <<"a">>,
      SubSeq(LongLine, 1, BufSize - 1) \o <<"\r">>,
      LongLine \o LongLine }

ParseTexts == StrUpTo(ParseAlphabet, MaxTextLen) \cup {Ex1, Ex2, ExCr, ExIndented} \cup LongTexts

\* The state of a run whose composer and editor steps went through.
AfterEditor ==
    /\ pc = "read"
    /\ fileExists = TRUE
    /\ lastWrite = file
    /\ edited = TRUE
    /\ logArgs = <<getLocalBranch(base), getLocalBranch(head)>>
    /\ editCmd = buildEditCommand(messageFile(gitDir), gitEditor)
    /\ title = <<>>
    /\ body = <<>>
    /\ readErr = "none"
    /\ linesRead = 0
    /\ err = "nil"
    /\ failedAt = "none"
    /\ exitStatus = -1
    /\ submitted = <<>>
    /\ otherRun = "idle"
    /\ otherInWindow = FALSE
    /\ readBuf = <<>>

InitParse ==
    /\ base = <<"o", ":", "m">>
    /\ head = <<"o", ":", "b">>
    /\ commitLog = <<"a">>
    /\ gitEditor = <<"v", "i", "m">>
    /\ gitDir = <<".", "g", "i", "t">>
    /\ stale = <<>>
    /\ file \in ParseTexts
    /\ AfterEditor

NextParse ==
    \/ ReadTitleAndBodyFromFile
    \/ CheckTitle
    \/ CreatePullRequest

SpecParse == InitParse /\ [][NextParse]_vars

-----------------------------------------------------------------------------
(* Properties of the parser.                                               *)

\* The lines of a text: the pieces between line feeds, each without the
\* carriage return that may precede its line feed; what follows the last line
\* feed is a line if it is not empty.
FileLines(text) ==
    LET pieces == Split(text, "\n")
        n      == Len(pieces)
        Strip(l) == IF Len(l) > 0 /\ l[Len(l)] = "\r" THEN SubSeq(l, 1, Len(l) - 1) ELSE l
        ended  == [i \in 1..(n - 1) |-> Strip(pieces[i])]
    IN  IF pieces[n] = <<>> THEN ended ELSE Append(ended, pieces[n])

StartsWithHash(line) == Len(line) > 0 /\ line[1] = "#"

\* No character of the line is outside the regexp class \s.
BlankLine(line) == \A i \in 1..Len(line) : line[i] \in RegexpSpace

\* Title-parts and body-parts as the two-state description gives them: the
\* lines before the first comment line are consumed; those before the first
\* blank one are title-parts, the blank one and all after it body-parts.
DescribedParts(lines) ==
    LET stopAt   == Min({i \in 1..Len(lines) : StartsWithHash(lines[i])} \cup {Len(lines) + 1})
        consumed == SubSeq(lines, 1, stopAt - 1)
        blankAt  == Min({i \in 1..Len(consumed) : BlankLine(consumed[i])}
                        \cup {Len(consumed) + 1})
    IN  [titleParts |-> SubSeq(consumed, 1, blankAt - 1),
         bodyParts  |-> SubSeq(consumed, blankAt, Len(consumed))]

\* The parser has run and its reader did not fail.
ParsedWhole == readErr \in {"EOF", "comment"}

\* C1: for every sequence of lines the parser returns the title-parts (the
\* non-blank lines before the first blank line, up to the first comment line)
\* joined with a space and trimmed, and the body-parts (the first blank line
\* and all later lines up to the first comment line) joined with a line feed
\* and trimmed; the two documented drafts give the documented results. The
\* lines of a text are those of FileLines.
C1_ParserResult ==
    ParsedWhole =>
        LET d == DescribedParts(FileLines(file))
        IN  /\ title = TrimSpace(Join(d.titleParts, <<" ">>))
            /\ body = TrimSpace(Join(d.bodyParts, <<"\n">>))
            /\ file = Ex1 => title = Ex1Title /\ body = Ex1Body
            /\ file = Ex2 => title = Ex2Title /\ body = Ex2Body

\* The offsets at which a comment line starts.
CommentStarts(text) ==
    {i \in 1..Len(text) : text[i] = "#" /\ (i = 1 \/ text[i - 1] = "\n")}

\* The text before the first comment line (all of it if there is none).
BeforeComment(text) ==
    IF CommentStarts(text) = {} THEN text
    ELSE SubSeq(text, 1, Min(CommentStarts(text)) - 1)

\* C2: a text with a comment line parses to what the text before its first
\* comment line parses to, whatever follows the comment line; the loop stops
\* at the first comment line having taken exactly the lines before it, and
\* without a comment line it stops at the end of the input, where every line
\* is taken but, at most, the one the reader returns together with the end.
C2_CommentEndsParsing ==
    ParsedWhole =>
        LET alone == readTitleAndBody(NewReader(BeforeComment(file), "EOF"))
        IN  /\ title = alone.title
            /\ body = alone.body
            /\ readErr = "comment" <=> CommentStarts(file) # {}
            /\ readErr = "comment" => linesRead = Len(FileLines(BeforeComment(file)))
            /\ readErr = "EOF" => Len(FileLines(file)) - linesRead \in {0, 1}
            /\ \A i \in 1..linesRead : ~StartsWithHash(FileLines(file)[i])

C2_Witness ==
    /\ pc = "submit"
    /\ file = <<"a", "\n", "#", "\n", "a">>
    /\ title = <<"a">>
    /\ body = <<>>
    /\ linesRead = 1
    /\ readErr = "comment"

\* The first line with a character that is not white space starts with "#".
FirstNonBlankIsComment(text) ==
    LET lines == FileLines(text)
    IN  \E i \in 1..Len(lines) :
            /\ StartsWithHash(lines[i])
            /\ \A j \in 1..(i - 1) : \A k \in 1..Len(lines[j]) : lines[j][k] \in UnicodeSpace

\* C4: a draft whose first non-blank line is a comment line parses to an
\* empty title and an empty body, and the run is aborted at the empty-title
\* check without the submitter being called.
C4_CommentFirstAborts ==
    (readErr # "none" /\ FirstNonBlankIsComment(file)) =>
        /\ title = <<>>
        /\ body = <<>>
        /\ submitted = <<>>
        /\ pc \in {"check", "fatal"}
        /\ pc = "fatal" => failedAt = "title" /\ exitStatus = 1

C4_Witness ==
    /\ pc = "fatal"
    /\ failedAt = "title"
    /\ file = <<"\n", " ", "\n", "#">>
    /\ readErr = "comment"
    /\ submitted = <<>>

\* The text title + "\n\n" + body parsed again.
Reparsed == readTitleAndBody(NewReader(title \o <<"\n", "\n">> \o body, "EOF"))

\* C5 as stated: whatever the input, parsing title + "\n\n" + body returns the
\* same title and the same body.
C5_IdempotentAlways ==
    readErr # "none" => Reparsed.title = title /\ Reparsed.body = body

-----------------------------------------------------------------------------
(* The composer on its own, over many commit logs and over many branch     *)
(* references, and the editor invoker over many editor names.              *)

LogAlphabet == {"a", " ", "\t", "\n"}

InitCompose ==
    /\ pc = "start"
    /\ base \in FlagRefs
    /\ head = <<"o", ":", "b">>
    /\ commitLog \in StrUpTo(LogAlphabet, MaxLogLen)
    /\ gitEditor = <<"v", "i", "m">>
    /\ gitDir = <<".", "g", "i", "t">>
    /\ fileExists = FALSE
    /\ file = <<>>
    /\ stale = <<>>
    /\ lastWrite = file
    /\ Fresh

NextCompose == WritePullRequestChanges

SpecCompose == InitCompose /\ [][NextCompose]_vars

RefAlphabet == {"o", "b", ":"}

InitBranch ==
    /\ pc = "start"
    /\ base \in StrUpTo(RefAlphabet, MaxRefLen)
    /\ head \in StrUpTo(RefAlphabet, MaxRefLen)
    /\ commitLog = <<"a">>
    /\ gitEditor = <<"v", "i", "m">>
    /\ gitDir = <<".", "g", "i", "t">>
    /\ fileExists = FALSE
    /\ file = <<>>
    /\ stale = <<>>
    /\ lastWrite = file
    /\ Fresh

NextBranch == WritePullRequestChanges

SpecBranch == InitBranch /\ [][NextBranch]_vars

EditorNames == StrUpTo({"v", "i", "m", "g"}, MaxEditorLen) \cup PipelineEditors

\* A run whose composer step went through.
InitEdit ==
    /\ pc = "edit"
    /\ base = <<"o", ":", "m">>
    /\ head = <<"o", ":", "b">>
    /\ commitLog = <<"a">>
    /\ gitEditor \in EditorNames
    /\ gitDir \in GitDirs
    /\ stale = <<>>
    /\ fileExists = TRUE
    /\ file = composeMessage(base, head, commitLog)
    /\ lastWrite = file
    /\ edited = FALSE
    /\ logArgs = <<getLocalBranch(base), getLocalBranch(head)>>
    /\ editCmd = <<>>
    /\ title = <<>>
    /\ body = <<>>
    /\ readErr = "none"
    /\ linesRead = 0
    /\ err = "nil"
    /\ failedAt = "none"
    /\ exitStatus = -1
    /\ submitted = <<>>
    /\ otherRun = "idle"
    /\ otherInWindow = FALSE
    /\ readBuf = <<>>

NextEdit ==
    \/ ExecCmdStart
    \/ EditorExit

SpecEdit == InitEdit /\ [][NextEdit]_vars

-----------------------------------------------------------------------------
(* Properties of the composer, the resolver and the editor invoker.        *)

\* The lines of the written draft after its eight header lines, the base and
\* the head having no line feed.
LogSection(text) ==
    LET pieces == Split(text, "\n")
    IN  SubSeq(pieces, 9, Len(pieces) - 1)

EndsWithSpace(line) == Len(line) > 0 /\ line[Len(line)] = " "

\* C6 as stated: every line of the log section starts with "# " and has no
\* trailing spaces.
C6_EveryLineHashSpace ==
    pc = "edit" =>
        \A i \in 1..Len(LogSection(file)) :
            /\ HasPrefix(LogSection(file)[i], <<"#", " ">>)
            /\ ~EndsWithSpace(LogSection(file)[i])

\* C6 amended: the log section has one line per line of the trimmed log, none
\* with trailing spaces; the line for a log line of spaces only or of nothing
\* (the one line of an empty log included) is "#", every other one is "# "
\* followed by the log line without its trailing spaces.
C6_LogSectionLines ==
    pc = "edit" =>
        LET logLines == Split(TrimSpace(commitLog), "\n")
            section  == LogSection(file)
        IN  /\ Len(section) = Len(logLines)
            /\ \A i \in 1..Len(section) :
                  LET rest == {k \in 1..Len(logLines[i]) : logLines[i][k] # " "}
                  IN  /\ HasPrefix(section[i], <<"#">>)
                      /\ ~EndsWithSpace(section[i])
                      /\ IF rest = {} THEN section[i] = <<"#">>
                         ELSE section[i] = <<"#", " ">> \o SubSeq(logLines[i], 1, Max(rest))

C6_Witness ==
    /\ pc = "edit"
    /\ commitLog = <<"a", " ", "\n", "\n", "a">>
    /\ LogSection(file) = << <<"#", " ", "a">>, <<"#">>, <<"#", " ", "a">> >>

\* What follows the last ":" of a reference, the reference itself without ":".
AfterLastColon(ref) ==
    LET at == {i \in 1..Len(ref) : ref[i] = ":"}
    IN  IF at = {} THEN ref ELSE SubSeq(ref, Max(at) + 1, Len(ref))

\* C9: getLocalBranch returns what follows the last ":" of a reference (nothing
\* when the reference ends in ":") and the reference itself when it has no
\* ":"; the commit-log lookup gets getLocalBranch(base) and
\* getLocalBranch(head), in this order.
C9_LocalBranch ==
    /\ getLocalBranch(base) = AfterLastColon(base)
    /\ getLocalBranch(head) = AfterLastColon(head)
    /\ pc # "start" => logArgs = <<AfterLastColon(base), AfterLastColon(head)>>

C9_Witness ==
    /\ pc = "edit"
    /\ base = <<"o", ":", ":">>
    /\ head = <<"o", ":", "b">>
    /\ logArgs = << <<>>, <<"b">> >>

VimNames == {<<"v", "i", "m">>, <<"g", "v", "i", "m">>, <<"m", "v", "i", "m">>}

\* C10: the command is [e, "-c", "set ft=gitcommit", p] exactly when the
\* editor e is vim, gvim or mvim, and [e, p] otherwise; e comes first and the
\* scratch path p last.  p is the git directory joined with PULLREQ_EDITMSG
\* as filepath.Join cleans it: "<dir>/PULLREQ_EDITMSG" for a clean directory,
\* "PULLREQ_EDITMSG" for "." and "/PULLREQ_EDITMSG" for "/".
C10_EditCommand ==
    pc # "edit" =>
        LET p == messageFile(gitDir)
        IN  /\ gitEditor \in VimNames => editCmd = <<gitEditor, <<"-", "c">>, FtFlag, p>>
            /\ gitEditor \notin VimNames => editCmd = <<gitEditor, p>>
            /\ editCmd[1] = gitEditor
            /\ editCmd[Len(editCmd)] = p
            /\ Len(p) >= Len(EditMsgName)
            /\ SubSeq(p, Len(p) - Len(EditMsgName) + 1, Len(p)) = EditMsgName
            /\ gitDir \in {<<".", "g", "i", "t">>, <<"/", "r", "/", ".", "g", "i", "t">>} =>
                  p = gitDir \o <<"/">> \o EditMsgName
            /\ gitDir = <<".">> => p = EditMsgName
            /\ gitDir = <<"/">> => p = <<"/">> \o EditMsgName

C10_Witness ==
    /\ pc = "editing"
    /\ gitEditor = <<"g", "v", "i", "m">>
    /\ editCmd = <<gitEditor, <<"-", "c">>, FtFlag,
                   <<".", "g", "i", "t", "/">> \o EditMsgName>>

-----------------------------------------------------------------------------
(* Properties of the pipeline.                                             *)

\* C3: the submitter is called only after the draft was written, the editor
\* exited without error, the scratch file was read back without error and the
\* title is not empty; a run that failed at a step before it never calls it.
C3_SubmitOnlyAfterEveryStep ==
    /\ submitted # <<>> =>
          /\ fileExists
          /\ readErr \in {"EOF", "comment"}
          /\ title # <<>>
          /\ Len(submitted) = 1
          /\ failedAt \in {"none", "submit"}
    /\ failedAt \in {"write", "exec", "read", "title"} => submitted = <<>>

\* C7: a failure to open the scratch file or a failing read of it ends the
\* run fatally at the read-back step, and nothing is submitted.
C7_ReadFailureIsFatal ==
    /\ readErr = "EIO" =>
          /\ pc = "fatal"
          /\ failedAt = "read"
          /\ exitStatus = 1
          /\ submitted = <<>>
    /\ failedAt = "read" => pc = "fatal" /\ exitStatus = 1 /\ submitted = <<>>

\* C8: from the editor step on the pipeline leaves the scratch file alone: in
\* a run that failed at the editor, the read-back, the empty-title check or
\* the submission, and at every step after the composer's, the file exists
\* and holds what the editor, or else the composer, last left.
C8_ScratchFileKept ==
    (pc \notin {"start"} /\ failedAt # "write") =>
        /\ fileExists
        /\ file = lastWrite
        /\ ~edited => file = composeMessage(base, head, commitLog)

C8_Witness ==
    /\ pc = "fatal"
    /\ failedAt = "submit"
    /\ edited
    /\ file = <<"a", "\n">>
    /\ file = lastWrite

\* The order of the steps of pullRequest: compose, launch the editor, wait for
\* it, read back, check the title, submit.
StepOrder ==
    { <<"start", "edit">>, <<"edit", "editing">>, <<"editing", "read">>,
      <<"read", "check">>, <<"check", "submit">>, <<"submit", "done">> }

\* C11: the steps happen in the order compose, editor, parse, submit and none
\* is repeated: control only moves one step forward or to the fatal end; the
\* composer's write happens only at the first step; the parser's results are
\* set only by the read-back step, which is entered only from the waiting
\* editor by the editor's exit; the request list grows only at the submit
\* step and only from empty. While the editor has not exited the run stays at
\* the editor step, which no other action leaves.
C11_StepOrder ==
    [][ /\ pc' # pc =>
              \/ <<pc, pc'>> \in StepOrder
              \/ pc' = "fatal" /\ pc \in {"start", "edit", "editing", "read", "submit", "check"}
        /\ logArgs' # logArgs => pc = "start"
        /\ editCmd' # editCmd => pc = "edit"
        /\ pc' = "read" => pc = "editing" /\ editCmd # <<>>
        /\ <<title, body, readErr, linesRead>>' # <<title, body, readErr, linesRead>> =>
              pc = "read" /\ pc' \in {"check", "fatal"}
        /\ submitted' # submitted =>
              /\ pc = "submit"
              /\ submitted = <<>>
              /\ Len(submitted') = 1
        /\ pc = "editing" /\ pc' = "editing" =>
              UNCHANGED <<title, body, readErr, linesRead, submitted, exitStatus>>
      ]_vars

C11_Witness ==
    /\ pc = "done"
    /\ edited
    /\ editCmd # <<>>
    /\ readErr \in {"EOF", "comment"}
    /\ Len(submitted) = 1

\* C12: after a successful writePullRequestChanges the scratch file holds
\* exactly the message composed from base, head and the commit log, whether
\* the path was absent or held a stale draft when the run began; until the
\* editor writes, that is what the file holds, and what the parser returns is
\* the parse of what the composer or the editor last wrote.
C12_StaleDraftOverwritten ==
    /\ (pc \notin {"start", "fatal"} \/ (pc = "fatal" /\ failedAt # "write")) =>
          /\ fileExists
          /\ ~edited => file = composeMessage(base, head, commitLog)
    /\ (pc \in {"check", "submit", "done"} /\ ~edited) =>
          LET got == readTitleAndBody(NewReader(composeMessage(base, head, commitLog), "EOF"))
          IN  readErr # "EIO" => title = got.title /\ body = got.body

C12_Witness ==
    /\ stale = <<StaleText>>
    /\ pc = "edit"
    /\ ~edited
    /\ file = composeMessage(base, head, commitLog)
    /\ file # StaleText

\* Two runs of the command in one repository. messageFile is the fixed path
\* git.Dir()/PULLREQ_EDITMSG (line 45) and writePullRequestChanges takes no
\* lock (line 94), so another run's composer can write its own draft to the
\* same path at any time. ioutil.WriteFile opens the file with O_TRUNC and
\* then writes it; the read-back opens the file and reads it with one read
\* system call for every fill of the reader's buffer. These are the steps
\* that interleave, in this run and in the other.
OtherRefs == {<<"m">>, <<"o", ":", "b">>}

\* The positions from this run's open of the scratch file for writing to the
\* end of its read-back.
InWindow == pc \in {"writing", "edit", "editing", "read", "reading"}

\* A write of data at offset 0 of a file holding old.
WriteAtStart(old, data) == data \o SubSeq(old, Len(data) + 1, Len(old))

\* writePullRequestChanges up to the open of ioutil.WriteFile (lines 73-94):
\* the commit logs are fetched and the message is built, then the file is
\* opened with O_WRONLY|O_CREATE|O_TRUNC, which creates or empties it; if the
\* open fails the error is fatal (lines 48-50).
WritePullRequestChangesOpen ==
    /\ pc = "start"
    /\ logArgs' = <<getLocalBranch(base), getLocalBranch(head)>>
    /\ \/ /\ fileExists' = TRUE
          /\ file' = <<>>
          /\ pc' = "writing"
          /\ UNCHANGED <<err, failedAt, exitStatus>>
       \/ /\ Fatal("write", "IOError")
          /\ UNCHANGED <<fileExists, file>>
    /\ UNCHANGED <<base, head, commitLog, gitEditor, gitDir, stale, otherRun,
                   otherInWindow, readBuf, lastWrite, edited, editCmd, title, body,
                   readErr, linesRead, submitted>>

\* The write of ioutil.WriteFile (line 94) and the check of its error (lines
\* 48-50): the message is written at offset 0 of the file as it is by then,
\* or only its first bytes are and the error is fatal.
WritePullRequestChangesWrite ==
    /\ pc = "writing"
    /\ LET message == composeMessage(base, head, commitLog)
       IN  \/ /\ file' = WriteAtStart(file, message)
              /\ lastWrite' = message
              /\ pc' = "edit"
              /\ UNCHANGED <<err, failedAt, exitStatus>>
           \/ \E n \in 0..MaxShortWrite :
                 /\ n <= Len(message)
                 /\ file' = WriteAtStart(file, SubSeq(message, 1, n))
                 /\ lastWrite' = SubSeq(message, 1, n)
                 /\ Fatal("write", "IOError")
    /\ UNCHANGED <<base, head, commitLog, gitEditor, gitDir, stale, otherRun,
                   otherInWindow, readBuf, fileExists, edited, logArgs, editCmd,
                   title, body, readErr, linesRead, submitted>>

\* The other run's ioutil.WriteFile opens the file: O_CREATE|O_TRUNC creates
\* or empties it.
OtherRunTruncates ==
    /\ otherRun = "idle"
    /\ fileExists' = TRUE
    /\ file' = <<>>
    /\ otherRun' = "truncated"
    /\ otherInWindow' = (otherInWindow \/ InWindow)
    /\ UNCHANGED <<pc, base, head, commitLog, gitEditor, gitDir, stale, readBuf,
                   lastWrite, edited, logArgs, editCmd, title, body,
                   readErr, linesRead, err, failedAt, exitStatus, submitted>>

\* The other run's ioutil.WriteFile writes its message at offset 0.
OtherRunWrites ==
    /\ otherRun = "truncated"
    /\ \E b \in OtherRefs, l \in PipelineLogs :
          file' = WriteAtStart(file, composeMessage(b, head, l))
    /\ otherRun' = "written"
    /\ otherInWindow' = (otherInWindow \/ InWindow)
    /\ UNCHANGED <<pc, base, head, commitLog, gitEditor, gitDir, stale, readBuf,
                   fileExists, lastWrite, edited, logArgs, editCmd, title, body,
                   readErr, linesRead, err, failedAt, exitStatus, submitted>>

\* Where readTitleAndBody stands after its reader has been given the bytes
\* buf and no error: stop tells that a whole line starting with "#" has been
\* read (the loop has ended), pending is otherwise the number of bytes in the
\* reader's buffer, which hold no "\n" and do not fill it, so that the next
\* ReadLine reads from the file. started tells that pieces of the current
\* line were returned with isPrefix set, hash that the first starts with "#".
RECURSIVE ReaderNeeds(_, _, _)
ReaderNeeds(buf, started, hash) ==
    LET n  == Len(buf)
        at == {i \in 1..Min({n, BufSize}) : buf[i] = "\n"}
        nl == IF at = {} THEN 0 ELSE Min(at)
    IN  IF nl > 0
        THEN IF (started /\ hash) \/ (~started /\ buf[1] = "#")
             THEN [stop |-> TRUE, pending |-> 0]
             ELSE ReaderNeeds(SubSeq(buf, nl + 1, n), FALSE, FALSE)
        ELSE IF n >= BufSize
        THEN LET keep == IF buf[BufSize] = "\r" THEN BufSize - 1 ELSE BufSize
             IN  ReaderNeeds(SubSeq(buf, keep + 1, n), TRUE,
                             IF started THEN hash ELSE buf[1] = "#")
        ELSE [stop |-> FALSE, pending |-> n]

\* os.Open of the read-back (lines 127-131).
ReadOpen ==
    /\ pc = "read"
    /\ \/ /\ Fatal("read", "IOError")
          /\ UNCHANGED <<file, readBuf>>
       \/ /\ fileExists
          /\ file' = osOpen(file)
          /\ readBuf' = << <<>> >>
          /\ pc' = "reading"
          /\ UNCHANGED <<err, failedAt, exitStatus>>
    /\ UNCHANGED <<base, head, commitLog, gitEditor, gitDir, stale, otherRun,
                   otherInWindow, fileExists, lastWrite, edited, logArgs, editCmd,
                   title, body, readErr, linesRead, submitted>>

\* The parser's result is in: title, body and what ended the loop.
ReadDone(got) ==
    /\ title' = got.title
    /\ body' = got.body
    /\ readErr' = got.stop
    /\ linesRead' = got.linesRead
    /\ IF got.err # "nil"
       THEN Fatal("read", "IOError")
       ELSE /\ pc' = "check"
            /\ err' = "nil"
            /\ UNCHANGED <<failedAt, exitStatus>>

\* The read-back goes on: readTitleAndBody has not returned.
ReadGoesOn == UNCHANGED <<pc, title, body, readErr, linesRead, err, failedAt, exitStatus>>

\* One fill of the reader's buffer during readTitleAndBody (lines 133-134):
\* a read system call at the offset reached, for the space left in the buffer,
\* and the lines the loop then takes from the buffer.
\* The call returns bytes: with them the loop ends at a comment line or needs
\* a further fill.
\* The call fails, or returns nothing (the end of the file as it is now). With
\* no byte of an unfinished line buffered, readln returns the error and the
\* loop ends. Otherwise ReadLine returns the buffered bytes as a line and
\* drops the error: the loop takes the line, ends if it is a comment line,
\* and otherwise the next readln reads the file again at the same offset.
ReadFill ==
    /\ pc = "reading"
    /\ LET offset  == Len(Join(readBuf, <<>>))
           pending == ReaderNeeds(readBuf[Len(readBuf)], FALSE, FALSE).pending
           n       == Min({Len(file) - offset, BufSize - pending})
           bytes   == SubSeq(file, offset + 1, offset + n)
       IN  \/ /\ n > 0
              /\ readBuf' = [readBuf EXCEPT ![Len(readBuf)] = @ \o bytes]
              /\ IF ReaderNeeds(readBuf'[Len(readBuf)], FALSE, FALSE).stop
                 THEN ReadDone(readTitleAndBody(NewReaderParts(readBuf', "EOF")))
                 ELSE ReadGoesOn
           \/ \E e \in {"EIO"} \cup (IF n <= 0 THEN {"EOF"} ELSE {}) :
                 IF pending = 0
                 THEN /\ ReadDone(readTitleAndBody(NewReaderParts(readBuf, e)))
                      /\ UNCHANGED readBuf
                 ELSE /\ readBuf' = Append(readBuf, <<>>)
                      /\ LET got == readTitleAndBody(NewReaderParts(readBuf', e))
                         IN  IF got.stop = "comment" THEN ReadDone(got) ELSE ReadGoesOn
    /\ UNCHANGED <<base, head, commitLog, gitEditor, gitDir, stale, otherRun,
                   otherInWindow, fileExists, file, lastWrite, edited, logArgs,
                   editCmd, submitted>>

InitTwoRuns ==
    /\ pc = "start"
    /\ base = <<"o", ":", "m">>
    /\ head = <<"o", ":", "b">>
    /\ commitLog \in PipelineLogs
    /\ gitEditor = <<"v", "i", "m">>
    /\ gitDir = <<".", "g", "i", "t">>
    /\ \/ fileExists = FALSE /\ file = <<>>
       \/ fileExists = TRUE /\ file = StaleText
    /\ stale = IF fileExists THEN <<file>> ELSE <<>>
    /\ lastWrite = file
    /\ Fresh

NextTwoRuns ==
    \/ WritePullRequestChangesOpen
    \/ WritePullRequestChangesWrite
    \/ ExecCmdStart
    \/ EditorWrites
    \/ EditorExit
    \/ ReadOpen
    \/ ReadFill
    \/ CheckTitle
    \/ CreatePullRequest
    \/ OtherRunTruncates
    \/ OtherRunWrites

SpecTwoRuns == InitTwoRuns /\ [][NextTwoRuns]_vars

\* What the parser returns for the content this run's composer or editor last left.
OwnParse == readTitleAndBody(NewReader(lastWrite, "EOF"))

\* C13 as stated: in every run the parser reads what the same run's composer
\* wrote and the same run's editor last left, and nothing else wrote the
\* scratch file between the run's compose step and its parse step.
C13_ExclusiveOwner ==
    (pc \in {"check", "submit", "done"} /\ readErr # "EIO") =>
        /\ ~otherInWindow
        /\ title = OwnParse.title
        /\ body = OwnParse.body

\* C13 amended: the pipeline order alone serializes only the steps of one
\* run. In a run during which no other run of the command opened or wrote
\* the scratch file between the open of the run's composer and the end of the
\* run's read-back, the parser reads what the run's composer wrote and the
\* run's editor last left: the file holds that content from the compose step
\* to the read-back, the title and body are its parse, and the composer's
\* draft is read unless the editor wrote.
C13_OwnerUnlessOtherRun ==
    ~otherInWindow =>
        /\ pc \in {"edit", "editing", "read", "reading"} => file = lastWrite
        /\ (pc \in {"check", "submit", "done"} /\ readErr # "EIO") =>
              /\ ~edited => lastWrite = composeMessage(base, head, commitLog)
              /\ title = OwnParse.title
              /\ body = OwnParse.body

\* The other run wrote its draft before this run composed; this run read its own.
C13_Witness ==
    /\ pc = "done"
    /\ otherRun = "written"
    /\ ~otherInWindow
    /\ edited
    /\ title = <<"a">>
    /\ Len(submitted) = 1

\* The instruction lines of the draft as the documentation gives them.
DocumentedInstructions ==
    <<"\n","#","\n","#"," ","W","r","i","t","e"," ","a"," ","m","e","s","s","a","g","e",
      " ","f","o","r"," ","t","h","i","s"," ","p","u","l","l"," ","r","e","q","u","e",
      "s","t","."," ","T","h","e"," ","f","i","r","s","t"," ","b","l","o","c","k","\n",
      "#"," ","o","f"," ","t","h","e"," ","t","e","x","t"," ","i","s"," ","t","h","e",
      " ","t","i","t","l","e"," ","a","n","d"," ","t","h","e"," ","r","e","s","t"," ",
      "i","s"," ","d","e","s","c","r","i","p","t","i","o","n",".","\n","#","\n","#"," ",
      "C","h","a","n","g","e","s",":","\n","#","\n">>

\* C14: the draft written by writePullRequestChanges is a blank first line,
\* "# Requesting a pull to <base> from <head>" with base and head as given,
\* the lines "#", "# Write a message for this pull request. The first block",
\* "# of the text is the title and the rest is description.", "#",
\* "# Changes:", "#", and then the processed commit log.
C14_DocumentedLayout ==
    (pc = "edit" /\ ~edited) =>
        file = messageHead \o base \o messageFrom \o head \o DocumentedInstructions
                   \o processCommitLogs(commitLog) \o messageTail

\* The two-state machine over a line sequence, from line i on: a line starting
\* with "#" ends the run in either state; IN_TITLE appends a line with a
\* non-whitespace character to title-parts, and on any other line goes over to
\* IN_BODY appending the line to body-parts; IN_BODY appends every line to
\* body-parts.
RECURSIVE TwoStateMachine(_, _, _, _, _)
TwoStateMachine(lines, i, state, titleParts, bodyParts) ==
    IF i > Len(lines) \/ StartsWithHash(lines[i])
    THEN [state |-> state, titleParts |-> titleParts, bodyParts |-> bodyParts]
    ELSE IF state = "IN_TITLE" /\ ~BlankLine(lines[i])
    THEN TwoStateMachine(lines, i + 1, "IN_TITLE", Append(titleParts, lines[i]), bodyParts)
    ELSE TwoStateMachine(lines, i + 1, "IN_BODY", titleParts, Append(bodyParts, lines[i]))

Machine(lines) == TwoStateMachine(lines, 1, "IN_TITLE", <<>>, <<>>)

\* The lengths of the prefixes of a text that end with a whole line.
LineEnds(text) == {0, Len(text)} \cup {i \in 1..Len(text) : text[i] = "\n"}

\* C15: the loop of readTitleAndBody and the two-state machine agree on every
\* line sequence: run over the file, and over each prefix of it made of whole
\* lines, they give the same title-parts and body-parts; body-parts is empty
\* exactly when the machine ends in IN_TITLE; and from a prefix on which the
\* machine is in IN_BODY no longer prefix adds to title-parts. The title and
\* body the parser has just returned are the machine's parts joined and
\* trimmed.
C15_TwoStateMachine ==
    (ParsedWhole /\ pc = "check") =>
        LET loop == [k \in LineEnds(file) |->
                        readTitleAndBody(NewReader(SubSeq(file, 1, k), "EOF"))]
            m    == [k \in LineEnds(file) |-> Machine(FileLines(SubSeq(file, 1, k)))]
            all  == m[Len(file)]
        IN  /\ \A k \in LineEnds(file) :
                  /\ loop[k].titleParts = m[k].titleParts
                  /\ loop[k].bodyParts = m[k].bodyParts
                  /\ (loop[k].bodyParts = <<>>) <=> (m[k].state = "IN_TITLE")
                  /\ \A j \in LineEnds(file) :
                        (j <= k /\ m[j].state = "IN_BODY") =>
                            loop[k].titleParts = loop[j].titleParts
            /\ title = TrimSpace(Join(all.titleParts, <<" ">>))
            /\ body = TrimSpace(Join(all.bodyParts, <<"\n">>))
            /\ linesRead = Len(all.titleParts) + Len(all.bodyParts)

\* C16: a blank first line forces an empty title. Blank is what the parser's
\* \S test calls blank: no character outside the class [\t\n\f\r ]. The parsed
\* title is non-empty only if the first line of the file has a character
\* outside that class and does not start with "#". When the first line is
\* blank, the title is empty whatever follows, every line the parser takes
\* goes to the body, and the run ends at the empty-title check without a
\* submission.
C16_BlankFirstLine ==
    readErr # "none" =>
        LET lines == FileLines(file)
        IN  /\ title # <<>> =>
                  /\ lines # <<>>
                  /\ ~BlankLine(lines[1])
                  /\ ~StartsWithHash(lines[1])
            /\ (lines # <<>> /\ BlankLine(lines[1])) =>
                  /\ title = <<>>
                  /\ ParsedWhole =>
                        LET got == readTitleAndBody(NewReader(file, "EOF"))
                        IN  /\ got.titleParts = <<>>
                            /\ got.bodyParts = SubSeq(lines, 1, linesRead)
                            /\ body = TrimSpace(Join(got.bodyParts, <<"\n">>))
                  /\ submitted = <<>>
                  /\ pc \in {"check", "fatal"}
                  /\ pc = "fatal" => failedAt = "title" /\ exitStatus = 1

\* A blank first line, then "a a": the text goes to the body and the run aborts.
C16_Witness ==
    /\ file = <<"\n", "a", " ", "a", "\n">>
    /\ readErr = "EOF"
    /\ title = <<>>
    /\ body = <<"a", " ", "a">>
    /\ pc = "fatal"
    /\ failedAt = "title"
    /\ submitted = <<>>

\* What readTitleAndBody returns for the scratch file when the read stops with
\* stop: the parse of the whole file, or of the part a failing read delivered.
ParserResults(stop) ==
    { readTitleAndBody(NewReader(SubSeq(file, 1, k), stop)) :
          k \in IF stop = "EIO" THEN ErrOffsets(file) ELSE {Len(file)} }

\* C17: the submitter is handed {title, body, base, head} with the title and
\* body the parser returned for the scratch file and the base and head flag
\* values as given, not their getLocalBranch forms (those go to the log lookup
\* only); from the read-back to the submission the four values stay what the
\* parser returned and what the flags were.
C17_RequestParams ==
    /\ pc \in {"check", "submit", "done"} \/ failedAt \in {"title", "submit"} =>
          \E got \in ParserResults(IF readErr = "EIO" THEN "EIO" ELSE "EOF") :
              title = got.title /\ body = got.body
    /\ logArgs # <<>> => logArgs = <<getLocalBranch(base), getLocalBranch(head)>>
    /\ submitted # <<>> =>
          /\ Len(submitted) = 1
          /\ submitted[1] = [title |-> title, body |-> body, base |-> base, head |-> head]
          /\ submitted[1].base \in FlagRefs
          /\ submitted[1].head \in FlagRefs

\* A submission with owner-qualified flags whose local names differ from them.
C17_Witness ==
    /\ pc = "done"
    /\ base = <<"o", ":", "m">>
    /\ head = <<"o", ":", "b">>
    /\ logArgs = << <<"m">>, <<"b">> >>
    /\ title = <<"a">>
    /\ submitted = << [title |-> <<"a">>, body |-> body,
                       base |-> <<"o", ":", "m">>, head |-> <<"o", ":", "b">>] >>

\* Runs in which the editor exits without having written the scratch file, for
\* many commit logs.
UneditedBases == {<<"o", ":", "m">>, <<"#">>}

InitUnedited ==
    /\ pc = "start"
    /\ base \in UneditedBases
    /\ head = <<"o", ":", "b">>
    /\ commitLog \in StrUpTo(LogAlphabet, MaxLogLen)
    /\ gitEditor = <<"v", "i", "m">>
    /\ gitDir = <<".", "g", "i", "t">>
    /\ fileExists = FALSE
    /\ file = <<>>
    /\ stale = <<>>
    /\ lastWrite = file
    /\ Fresh

NextUnedited ==
    \/ WritePullRequestChanges
    \/ ExecCmdStart
    \/ EditorExit
    \/ ReadTitleAndBodyFromFile
    \/ CheckTitle

SpecUnedited == InitUnedited /\ [][NextUnedited]_vars

NoLineBreak(s) == \A i \in 1..Len(s) : s[i] # "\n"

\* C18: for base and head without a line break and any commit log, the
\* composed draft has a blank first line and after it only lines starting
\* with "#"; when the editor exits leaving the draft as composed, the parser
\* returns an empty title (and an empty body), nothing is submitted, and the
\* run ends at the empty-title check.
C18_UneditedDraftAborts ==
    (NoLineBreak(base) /\ NoLineBreak(head) /\ ~edited
       /\ pc # "start" /\ failedAt # "write") =>
        LET lines == FileLines(file)
        IN  /\ file = composeMessage(base, head, commitLog)
            /\ Len(lines) >= 9
            /\ lines[1] = <<>>
            /\ \A i \in 2..Len(lines) : StartsWithHash(lines[i])
            /\ readErr # "none" => title = <<>> /\ body = <<>>
            /\ pc \notin {"submit", "done"}
            /\ submitted = <<>>
            /\ (pc = "fatal" /\ failedAt \notin {"exec", "read"}) =>
                  /\ failedAt = "title"
                  /\ err = "ValidationError"
                  /\ exitStatus = 1

\* The draft for a two-line log with trailing spaces, left as composed, read
\* to its first comment line, and the run aborted for the empty title.
C18_Witness ==
    /\ pc = "fatal"
    /\ failedAt = "title"
    /\ ~edited
    /\ base = <<"o", ":", "m">>
    /\ commitLog = <<"a", " ", "\n", "a">>
    /\ file = composeMessage(base, head, commitLog)
    /\ readErr = "comment"
    /\ linesRead = 1
    /\ title = <<>>
    /\ submitted = <<>>

\* No Unicode white space at either end of the text.
Trimmed(text) ==
    text # <<>> => text[1] \notin UnicodeSpace /\ text[Len(text)] \notin UnicodeSpace

\* C19: whatever the scratch file holds, the title readTitleAndBody returns
\* has no line feed and no white space at either end, and the body has no
\* white space at either end; the title and body the parser has just returned
\* are made only of the lines before the first line starting with "#", so no
\* line of the input that starts with "#" is part of either; and a title
\* handed to the submitter is not empty, has no line feed and is trimmed.
C19_TitleAndBodyShape ==
    /\ readErr # "none" =>
          /\ NoLineBreak(title)
          /\ Trimmed(title)
          /\ Trimmed(body)
    /\ (ParsedWhole /\ pc = "check") =>
          LET got   == readTitleAndBody(NewReader(file, "EOF"))
              lines == FileLines(file)
          IN  /\ title = TrimSpace(Join(got.titleParts, <<" ">>))
              /\ body = TrimSpace(Join(got.bodyParts, <<"\n">>))
              /\ \A i \in 1..Len(got.titleParts) :
                    ~StartsWithHash(got.titleParts[i]) /\ NoLineBreak(got.titleParts[i])
              /\ \A i \in 1..Len(got.bodyParts) :
                    ~StartsWithHash(got.bodyParts[i]) /\ NoLineBreak(got.bodyParts[i])
              /\ \A i \in 1..got.linesRead :
                    \/ \E j \in 1..Len(got.titleParts) : got.titleParts[j] = lines[i]
                    \/ \E j \in 1..Len(got.bodyParts) : got.bodyParts[j] = lines[i]
              /\ Len(got.titleParts) + Len(got.bodyParts) = got.linesRead
              /\ readErr = "comment" => StartsWithHash(lines[got.linesRead + 1])
    /\ \A i \in 1..Len(submitted) :
          /\ submitted[i].title # <<>>
          /\ NoLineBreak(submitted[i].title)
          /\ Trimmed(submitted[i].title)

\* Two title lines, the first with a leading space, submitted as one line.
C19_Witness ==
    /\ file = <<" ", "a", "\n", "a", " ">>
    /\ readErr = "EOF"
    /\ title = <<"a", " ", "a">>
    /\ pc = "done"
    /\ submitted # <<>>
    /\ submitted[1].title = <<"a", " ", "a">>

\* Runs of pullRequest under the scheduling of sequential code: a step that
\* control has reached is executed, and the editor process exits (cmd.Run
\* returns). Whether the user saves in the editor is left open.
InitLive ==
    /\ pc = "start"
    /\ base = <<"o", ":", "m">>
    /\ head = <<"o", ":", "b">>
    /\ commitLog \in PipelineLogs
    /\ gitEditor = <<"v", "i", "m">>
    /\ gitDir = <<".", "g", "i", "t">>
    /\ fileExists = FALSE
    /\ file = <<>>
    /\ stale = <<>>
    /\ lastWrite = file
    /\ Fresh

SpecLive ==
    /\ InitLive
    /\ [][Next]_vars
    /\ WF_vars(WritePullRequestChanges)
    /\ WF_vars(ExecCmdStart)
    /\ WF_vars(EditorExit)
    /\ WF_vars(ReadTitleAndBodyFromFile)
    /\ WF_vars(CheckTitle)
    /\ WF_vars(CreatePullRequest)

\* The two ends of a run.
Terminated == pc \in {"done", "fatal"}

RequestSubmitted ==
    /\ pc = "done"
    /\ exitStatus = 0
    /\ failedAt = "none"
    /\ err = "nil"
    /\ Len(submitted) = 1

AbortedFatally ==
    /\ pc = "fatal"
    /\ exitStatus = 1
    /\ failedAt \in {"write", "exec", "read", "title", "submit"}
    /\ err # "nil"

\* C20: when the editor exits, every run ends, and it ends either with the
\* request submitted or with a fatal error, never both and never anything
\* else; an ended run takes no further step. The parser loop has ended when
\* the read-back is over: at the first comment line, having taken the lines
\* before it, or at the end of the input, having taken every line but, at
\* most, the one the reader returns together with the end, and the end of the
\* input is no error (a failing read ends the loop too). The submitter is
\* called at most once in a run.
C20_RunTerminates ==
    /\ <>Terminated
    /\ [](Terminated => \/ (RequestSubmitted /\ ~AbortedFatally)
                         \/ (AbortedFatally /\ ~RequestSubmitted))
    /\ [](~Terminated => exitStatus = -1 /\ failedAt = "none")
    /\ [][Terminated => UNCHANGED vars]_vars
    /\ [](readErr \in {"none", "comment", "EOF", "EIO"})
    /\ [](pc \in {"check", "submit", "done"} => readErr # "none")
    /\ [](readErr = "comment" =>
              /\ linesRead < Len(FileLines(file))
              /\ StartsWithHash(FileLines(file)[linesRead + 1])
              /\ \A i \in 1..linesRead : ~StartsWithHash(FileLines(file)[i]))
    /\ [](readErr = "EOF" =>
              /\ Len(FileLines(file)) - linesRead \in {0, 1}
              /\ \A i \in 1..linesRead : ~StartsWithHash(FileLines(file)[i])
              /\ failedAt # "read"
              /\ title # <<>> => pc \in {"check", "submit", "done"} \/ failedAt = "submit")
    /\ [](Len(submitted) <= 1)
    /\ [][submitted' # submitted => submitted = <<>> /\ pc = "submit"]_vars

\* A draft without a comment line read to the end of the input and submitted.
C20_Witness ==
    /\ RequestSubmitted
    /\ edited
    /\ readErr = "EOF"
    /\ file = <<"a", "\n">>
    /\ title = <<"a">>

=============================================================================
